---- MODULE Spec2Model ----
(***************************************************************************)
(* Model of app.py: the IRPF x Judiciario comparison dashboard.            *)
(* The script is re-run from top to bottom after every widget change; a    *)
(* state holds the loaded table, the three widget values and everything    *)
(* the last run computed.                                                  *)
(***************************************************************************)
EXTENDS Integers, Sequences, FiniteSets, TLC

VARIABLES csv, df, uf_sel, ocup_sel, anos_sel, pc,
          d_user, d_jud, agg_user, agg_jud, ratio_renda, dif_aliq_paga_pp,
          s, pivot

vars == <<csv, df, uf_sel, ocup_sel, anos_sel, pc,
          d_user, d_jud, agg_user, agg_jud, ratio_renda, dif_aliq_paga_pp,
          s, pivot>>

(***************************************************************************)
(* Program constants.                                                      *)
(***************************************************************************)
OCUP_JUD == "Membro do Poder Judiciário e de Tribunal de Contas"
ANO_MIN == 2021
GRUPO_JUD == "Judiciário"
UF_DEFAULT == "São Paulo"

(***************************************************************************)
(* Bounds of the model.                                                    *)
(***************************************************************************)
MaxVal == 2
MaxAmt == 1
MaxRows == 3
AnoMax == 2022

(***************************************************************************)
(* Floating-point values: NaN, +/- infinity, or an exact rational n/d in   *)
(* lowest terms with d > 0.                                                *)
(***************************************************************************)
NaN == [k |-> "nan", n |-> 0, d |-> 1]
Inf == [k |-> "inf", n |-> 1, d |-> 1]
NegInf == [k |-> "inf", n |-> -1, d |-> 1]

Abs(x) == IF x < 0 THEN -x ELSE x

RECURSIVE GCD(_, _)
GCD(a, b) == IF b = 0 THEN a ELSE GCD(b, a % b)

Num(n, d) ==
    LET g == GCD(Abs(n), d)
    IN [k |-> "num", n |-> n \div g, d |-> d \div g]

IsNaN(x) == x.k = "nan"
IsInf(x) == x.k = "inf"
IsNum(x) == x.k = "num"
Sign(x) == IF x.n < 0 THEN -1 ELSE IF x.n > 0 THEN 1 ELSE 0

Add(a, b) ==
    IF IsNaN(a) \/ IsNaN(b) THEN NaN
    ELSE IF IsInf(a) /\ IsInf(b) THEN (IF a.n = b.n THEN a ELSE NaN)
    ELSE IF IsInf(a) THEN a
    ELSE IF IsInf(b) THEN b
    ELSE Num(a.n * b.d + b.n * a.d, a.d * b.d)

Neg(a) == [a EXCEPT !.n = -a.n]

Sub(a, b) == Add(a, Neg(b))

Mul(a, b) ==
    IF IsNaN(a) \/ IsNaN(b) THEN NaN
    ELSE IF IsInf(a) \/ IsInf(b)
         THEN (IF Sign(a) * Sign(b) = 0 THEN NaN
               ELSE IF Sign(a) * Sign(b) > 0 THEN Inf ELSE NegInf)
    ELSE Num(a.n * b.n, a.d * b.d)

\* IEEE division as numpy/pandas perform it on float columns: x/0 is an
\* infinity (NaN for 0/0), never an exception.
Div(a, b) ==
    IF IsNaN(a) \/ IsNaN(b) THEN NaN
    ELSE IF IsInf(a) THEN (IF IsInf(b) THEN NaN
                           ELSE IF Sign(b) < 0 THEN Neg(a) ELSE a)
    ELSE IF IsInf(b) THEN Num(0, 1)
    ELSE IF b.n = 0 THEN (IF a.n = 0 THEN NaN
                          ELSE IF a.n > 0 THEN Inf ELSE NegInf)
    ELSE Num(a.n * b.d * Sign(b), a.d * Abs(b.n))

\* Variant: a zero or missing denominator gives 0.
safe_div_zero(a, b) ==
    IF IsNaN(b) \/ (IsNum(b) /\ b.n = 0) THEN Num(0, 1) ELSE Div(a, b)

safe_div(a, b) ==
    IF IsNaN(b) \/ (IsNum(b) /\ b.n = 0) THEN NaN ELSE Div(a, b)

(***************************************************************************)
(* Column reductions of pandas: sum() and mean() skip NaN cells; the sum   *)
(* of nothing is 0 and the mean of nothing is NaN.                         *)
(***************************************************************************)
RECURSIVE SumSkipNa(_)
SumSkipNa(col) ==
    IF col = <<>> THEN Num(0, 1)
    ELSE IF IsNaN(Head(col)) THEN SumSkipNa(Tail(col))
    ELSE Add(Head(col), SumSkipNa(Tail(col)))

NotNaCells(col) == SelectSeq(col, LAMBDA x : ~IsNaN(x))

MeanSkipNa(col) ==
    IF NotNaCells(col) = <<>> THEN NaN
    ELSE Div(SumSkipNa(col), Num(Len(NotNaCells(col)), 1))

Column(part, c) == [i \in 1..Len(part) |-> part[i][c]]

(***************************************************************************)
(* Python orders str values by code point; StrOrder lists the labels of    *)
(* the model in that order.                                                *)
(***************************************************************************)
StrOrder == <<"Advogado", GRUPO_JUD, OCUP_JUD, "Professor",
              "Rio de Janeiro", UF_DEFAULT>>

StrRank(x) == CHOOSE i \in 1..Len(StrOrder) : StrOrder[i] = x

RECURSIVE SortedStr(_)
SortedStr(S) ==
    IF S = {} THEN <<>>
    ELSE LET m == CHOOSE x \in S : \A y \in S : StrRank(x) <= StrRank(y)
         IN <<m>> \o SortedStr(S \ {m})

RECURSIVE SortedInt(_)
SortedInt(S) ==
    IF S = {} THEN <<>>
    ELSE LET m == CHOOSE x \in S : \A y \in S : x <= y
         IN <<m>> \o SortedInt(S \ {m})

(***************************************************************************)
(* LOAD                                                                    *)
(***************************************************************************)
\* Variant: the rows below ANO_MIN are kept.
load_data_all(table) == table

load_data(table) == SelectSeq(table, LAMBDA r : r.ano_base >= ANO_MIN)

(***************************************************************************)
(* SIDEBAR CONTROLS                                                        *)
(***************************************************************************)
None == "None"

ufs(t) == SortedStr({t[i].uf : i \in 1..Len(t)})

ocup_uf(t, uf) ==
    SortedStr({t[i].ocupacao_principal : i \in {j \in 1..Len(t) : t[j].uf = uf}})

\* Variant: the reference occupation stays in the user's list.
ocup_uf_all(t, uf) == ocup_uf(t, uf)

ocup_uf_user(t, uf) == SelectSeq(ocup_uf(t, uf), LAMBDA o : o /= OCUP_JUD)

anos_disponiveis(t) == SortedInt({t[i].ano_base : i \in 1..Len(t)})

Range(q) == {q[i] : i \in 1..Len(q)}

\* st.selectbox returns options[index], or None for an empty option list.
uf_default(t) ==
    IF ufs(t) = <<>> THEN None
    ELSE IF UF_DEFAULT \in Range(ufs(t)) THEN UF_DEFAULT ELSE ufs(t)[1]

ocup_default(t, uf) ==
    IF ocup_uf_user(t, uf) = <<>> THEN None ELSE ocup_uf_user(t, uf)[1]

(***************************************************************************)
(* DATA FILTERED                                                           *)
(***************************************************************************)
d_filter(t, uf, anos) ==
    SelectSeq(t, LAMBDA r : r.uf = uf /\ r.ano_base \in anos)

by_ocup(d, ocup) == SelectSeq(d, LAMBDA r : r.ocupacao_principal = ocup)

(***************************************************************************)
(* AGREGAR (ponderado)                                                     *)
(***************************************************************************)
\* The operators below are evaluated in the order of the function's
\* statements: the five sums, then the four ratios, then the record.
agg_record(tot_contrib, tot_rend, tot_isento, tot_pago, tot_devido, renda_media, pct_isento, aliq_paga, aliq_devida) ==
    [computed |-> TRUE,
     tot_contrib |-> tot_contrib,
     tot_rend |-> tot_rend,
     tot_isento |-> tot_isento,
     tot_pago |-> tot_pago,
     tot_devido |-> tot_devido,
     renda_media |-> renda_media,
     pct_isento |-> pct_isento,
     aliq_paga |-> aliq_paga,
     aliq_devida |-> aliq_devida,
     isento_medio |-> IF ~IsNaN(renda_media) /\ ~IsNaN(pct_isento)
                      THEN Mul(renda_media, pct_isento) ELSE NaN]

agg_ratios(tot_contrib, tot_rend, tot_isento, tot_pago, tot_devido) ==
    agg_record(tot_contrib, tot_rend, tot_isento, tot_pago, tot_devido,
               safe_div(tot_rend, tot_contrib),
               safe_div(tot_isento, tot_rend),
               safe_div(tot_pago, tot_rend),
               safe_div(tot_devido, tot_rend))

\* Variant: the average income is the mean of the per-row ratios.
agregados_media_simples(df_part) ==
    agg_record(SumSkipNa(Column(df_part, "qtde_contribuintes")),
               SumSkipNa(Column(df_part, "rend_total")),
               SumSkipNa(Column(df_part, "rend_isentos_e_nao_tributaveis")),
               SumSkipNa(Column(df_part, "imposto_pago")),
               SumSkipNa(Column(df_part, "imposto_devido_total")),
               MeanSkipNa(Column(df_part, "rend_total_por_contrib")),
               safe_div(SumSkipNa(Column(df_part, "rend_isentos_e_nao_tributaveis")),
                        SumSkipNa(Column(df_part, "rend_total"))),
               safe_div(SumSkipNa(Column(df_part, "imposto_pago")),
                        SumSkipNa(Column(df_part, "rend_total"))),
               safe_div(SumSkipNa(Column(df_part, "imposto_devido_total")),
                        SumSkipNa(Column(df_part, "rend_total"))))

agregados_ponderados(df_part) ==
    agg_ratios(SumSkipNa(Column(df_part, "qtde_contribuintes")),
               SumSkipNa(Column(df_part, "rend_total")),
               SumSkipNa(Column(df_part, "rend_isentos_e_nao_tributaveis")),
               SumSkipNa(Column(df_part, "imposto_pago")),
               SumSkipNa(Column(df_part, "imposto_devido_total")))

\* Variant: plain division instead of safe_div.
ratio_renda_unsafe(aj, au) == Div(aj.renda_media, au.renda_media)

calc_ratio_renda(aj, au) == safe_div(aj.renda_media, au.renda_media)

\* Variant: an undefined rate counts as zero.
NaNAsZero(x) == IF IsNaN(x) THEN Num(0, 1) ELSE x

dif_aliq_fillna(aj, au) ==
    Mul(Sub(NaNAsZero(aj.aliq_paga), NaNAsZero(au.aliq_paga)), Num(100, 1))

calc_dif_aliq_paga_pp(aj, au) ==
    IF ~IsNaN(aj.aliq_paga) /\ ~IsNaN(au.aliq_paga)
    THEN Mul(Sub(aj.aliq_paga, au.aliq_paga), Num(100, 1))
    ELSE NaN

(***************************************************************************)
(* SERIES (ano a ano)                                                      *)
(***************************************************************************)
series_part(part, grupo) ==
    [i \in 1..Len(part) |->
        [ano_base |-> part[i].ano_base,
         renda_media |-> part[i].rend_total_por_contrib,
         pct_isento |-> part[i].pct_isento,
         aliq_paga |-> part[i].aliq_efetiva_paga,
         grupo |-> grupo]]

\* Order of sort_values(["ano_base", "grupo"]).
KeyLeq(x, y) ==
    \/ x.ano_base < y.ano_base
    \/ x.ano_base = y.ano_base /\ StrRank(x.grupo) <= StrRank(y.grupo)

RECURSIVE InsertByKey(_, _)
InsertByKey(q, x) ==
    IF q = <<>> THEN <<x>>
    ELSE IF KeyLeq(Head(q), x) THEN <<Head(q)>> \o InsertByKey(Tail(q), x)
    ELSE <<x>> \o q

\* Variant: the sort looks at the year only.
RECURSIVE InsertByAno(_, _)
InsertByAno(q, x) ==
    IF q = <<>> THEN <<x>>
    ELSE IF Head(q).ano_base <= x.ano_base
         THEN <<Head(q)>> \o InsertByAno(Tail(q), x)
    ELSE <<x>> \o q

RECURSIVE sort_by_ano(_)
sort_by_ano(q) ==
    IF q = <<>> THEN <<>>
    ELSE InsertByAno(sort_by_ano(SubSeq(q, 1, Len(q) - 1)), q[Len(q)])

RECURSIVE sort_values(_)
sort_values(q) ==
    IF q = <<>> THEN <<>>
    ELSE InsertByKey(sort_values(SubSeq(q, 1, Len(q) - 1)), q[Len(q)])

build_series(du, dj, ocup) ==
    sort_values(series_part(du, ocup) \o series_part(dj, GRUPO_JUD))

\* pivot_table(index="ano_base", columns="grupo", values="renda_media",
\* aggfunc="mean") with the default dropna=True: the (year, group) cells
\* whose mean is NaN are dropped before the table is unstacked, so a year
\* (or a group) left without any cell does not appear in the result.
cell_mean(ser, a, g) ==
    MeanSkipNa(Column(SelectSeq(ser, LAMBDA e : e.ano_base = a /\ e.grupo = g),
                      "renda_media"))

pivot_cells(ser) ==
    {c \in {<<ser[i].ano_base, ser[i].grupo>> : i \in 1..Len(ser)} :
        ~IsNaN(cell_mean(ser, c[1], c[2]))}

pivot_frame(ser, kept, index, columns) ==
    [columns |-> columns,
     rows |-> [i \in 1..Len(index) |->
                 [ano_base |-> index[i],
                  vals |-> [g \in columns |->
                              IF <<index[i], g>> \in kept
                              THEN cell_mean(ser, index[i], g) ELSE NaN]]]]

pivot_unstack(ser, kept) ==
    pivot_frame(ser, kept, SortedInt({c[1] : c \in kept}), {c[2] : c \in kept})

pivot_table(ser) == pivot_unstack(ser, pivot_cells(ser))

vezes_mais(row, columns, ocup) ==
    IF GRUPO_JUD \in columns /\ ocup \in columns
    THEN Div(row.vals[GRUPO_JUD], row.vals[ocup])
    ELSE NaN

add_vezes_mais(p, ocup) ==
    [columns |-> p.columns,
     rows |-> [i \in 1..Len(p.rows) |->
                 [ano_base |-> p.rows[i].ano_base,
                  vals |-> p.rows[i].vals,
                  vezes_mais |-> vezes_mais(p.rows[i], p.columns, ocup)]]]

build_pivot(ser, ocup) == add_vezes_mais(pivot_table(ser), ocup)

(***************************************************************************)
(* One run of the script from the filter stage on.  st.stop() ends the run *)
(* and leaves everything below it uncomputed.                              *)
(***************************************************************************)
Uncomputed == [computed |-> FALSE]

Stopped(at, du, dj) ==
    [pc |-> at, d_user |-> du, d_jud |-> dj,
     agg_user |-> Uncomputed, agg_jud |-> Uncomputed,
     ratio_renda |-> Uncomputed, dif_aliq_paga_pp |-> Uncomputed,
     s |-> Uncomputed, pivot |-> Uncomputed]

Completed(du, dj, au, aj, ser, ocup) ==
    [pc |-> "done", d_user |-> du, d_jud |-> dj,
     agg_user |-> au, agg_jud |-> aj,
     ratio_renda |-> calc_ratio_renda(aj, au),
     dif_aliq_paga_pp |-> calc_dif_aliq_paga_pp(aj, au),
     s |-> ser, pivot |-> build_pivot(ser, ocup)]

\* Variant: the reference subset is checked first.
ScriptFrom_jud_first(du, dj, ocup) ==
    IF dj = <<>> THEN Stopped("stop_jud", du, dj)
    ELSE IF du = <<>> THEN Stopped("stop_user", du, dj)
    ELSE Completed(du, dj, agregados_ponderados(du), agregados_ponderados(dj),
                   build_series(du, dj, ocup), ocup)

ScriptFrom(du, dj, ocup) ==
    IF du = <<>> THEN Stopped("stop_user", du, dj)
    ELSE IF dj = <<>> THEN Stopped("stop_jud", du, dj)
    ELSE Completed(du, dj, agregados_ponderados(du), agregados_ponderados(dj),
                   build_series(du, dj, ocup), ocup)

Script(t, uf, ocup, anos) ==
    ScriptFrom(by_ocup(d_filter(t, uf, anos), ocup),
               by_ocup(d_filter(t, uf, anos), OCUP_JUD), ocup)

(***************************************************************************)
(* Input tables.  A row of the CSV file has the three keys, the five       *)
(* totals and the three precomputed per-row ratios.  The tables come in    *)
(* six families, each varying the columns one stage of the script reads.  *)
(***************************************************************************)
Row(a, u, o, c, r, i, p, dv, rpc, pi, ap) ==
    [ano_base |-> a, uf |-> u, ocupacao_principal |-> o,
     qtde_contribuintes |-> c, rend_total |-> r,
     rend_isentos_e_nao_tributaveis |-> i, imposto_pago |-> p,
     imposto_devido_total |-> dv,
     rend_total_por_contrib |-> rpc, pct_isento |-> pi,
     aliq_efetiva_paga |-> ap]

Amounts == {Num(v, 1) : v \in 0..MaxAmt}
Cells == {Num(v, 1) : v \in 0..MaxVal} \cup {NaN}
Anos == (ANO_MIN - 1)..AnoMax
AnosValidos == ANO_MIN..AnoMax
UFs == {"Rio de Janeiro", UF_DEFAULT}
OcupsUser == {"Advogado", "Professor"}
Ocups == OcupsUser \cup {OCUP_JUD}
One == Num(1, 1)

\* Rows of any region and occupation, of the year ANO_MIN or the year
\* before it; every numeric cell is 1.
KeyRows ==
    {Row(a, u, o, One, One, One, One, One, One, One, One) :
        a \in (ANO_MIN - 1)..ANO_MIN, u \in UFs, o \in Ocups}

(***************************************************************************)
(* The state machine: the first run of the script with the widgets at      *)
(* their defaults, then one full re-run per widget change.                 *)
(***************************************************************************)
SetOutputs(o) ==
    /\ pc = o.pc
    /\ d_user = o.d_user
    /\ d_jud = o.d_jud
    /\ agg_user = o.agg_user
    /\ agg_jud = o.agg_jud
    /\ ratio_renda = o.ratio_renda
    /\ dif_aliq_paga_pp = o.dif_aliq_paga_pp
    /\ s = o.s
    /\ pivot = o.pivot

FirstRun(table) ==
    /\ csv = table
    /\ df = load_data(csv)
    /\ uf_sel = uf_default(df)
    /\ ocup_sel = ocup_default(df, uf_sel)
    /\ anos_sel = Range(anos_disponiveis(df))
    /\ \E o \in {Script(df, uf_sel, ocup_sel, anos_sel)} : SetOutputs(o)

\* Tables of up to MaxRows rows in any order.
InitKeys == \E n \in 0..MaxRows : \E t \in [1..n -> KeyRows] : FirstRun(t)

\* One subject row and one reference row; the contributor counts, the
\* incomes and the taxes paid vary.
InitAgg ==
    \E c1 \in Cells, r1 \in Cells, p1 \in Amounts,
       c2 \in Cells, r2 \in Cells, p2 \in Amounts :
        FirstRun(<<Row(ANO_MIN, UF_DEFAULT, "Advogado",
                       c1, r1, One, p1, One, One, One, One),
                   Row(ANO_MIN, UF_DEFAULT, OCUP_JUD,
                       c2, r2, One, p2, One, One, One, One)>>)

\* One subject row whose exempt income and tax owed vary as well.
InitRates ==
    \E c1 \in Cells, r1 \in Cells, i1 \in Amounts, dv1 \in Amounts :
        FirstRun(<<Row(ANO_MIN, UF_DEFAULT, "Advogado",
                       c1, r1, i1, One, dv1, One, One, One),
                   Row(ANO_MIN, UF_DEFAULT, OCUP_JUD,
                       One, One, One, One, One, One, One, One)>>)

\* Two subject rows whose contributor counts, incomes and per-row income
\* per contributor vary, and one reference row.
InitWeight ==
    \E c1 \in Cells, r1 \in Amounts, q1 \in Cells,
       c2 \in Cells, r2 \in Amounts, q2 \in Cells, a \in AnosValidos :
        FirstRun(<<Row(ANO_MIN, UF_DEFAULT, "Professor",
                       c1, r1, One, One, One, q1, One, One),
                   Row(a, UF_DEFAULT, "Professor",
                       c2, r2, One, One, One, q2, One, One),
                   Row(ANO_MIN, UF_DEFAULT, OCUP_JUD,
                       One, One, One, One, One, One, One, One)>>)

\* A subject row, a reference row and a third row of either group, over
\* the valid years; the precomputed per-row income per contributor varies.
InitSeries ==
    \E a1 \in AnosValidos, q1 \in Cells, a2 \in AnosValidos, q2 \in Cells,
       a3 \in AnosValidos, q3 \in Cells, o3 \in {"Professor", OCUP_JUD} :
        FirstRun(<<Row(a1, UF_DEFAULT, "Professor",
                       One, One, One, One, One, q1, Num(1, 2), Num(1, 4)),
                   Row(a2, UF_DEFAULT, OCUP_JUD,
                       One, One, One, One, One, q2, Num(1, 2), Num(1, 4)),
                   Row(a3, UF_DEFAULT, o3,
                       One, One, One, One, One, q3, Num(1, 2), Num(1, 4))>>)

\* One subject row and one reference row; the precomputed per-row exempt
\* share and paid rate vary.
InitShare ==
    \E pi1 \in Cells, ap1 \in Cells, pi2 \in Cells, ap2 \in Cells :
        FirstRun(<<Row(ANO_MIN, UF_DEFAULT, "Advogado",
                       One, One, One, One, One, One, pi1, ap1),
                   Row(ANO_MIN, UF_DEFAULT, OCUP_JUD,
                       One, One, One, One, One, One, pi2, ap2)>>)

Init == InitKeys \/ InitAgg \/ InitRates \/ InitWeight \/ InitSeries \/ InitShare

SetOutputsNext(o) ==
    /\ pc' = o.pc
    /\ d_user' = o.d_user
    /\ d_jud' = o.d_jud
    /\ agg_user' = o.agg_user
    /\ agg_jud' = o.agg_jud
    /\ ratio_renda' = o.ratio_renda
    /\ dif_aliq_paga_pp' = o.dif_aliq_paga_pp
    /\ s' = o.s
    /\ pivot' = o.pivot

Rerun == \E o \in {Script(df', uf_sel', ocup_sel', anos_sel')} : SetOutputsNext(o)

\* The occupation selectbox is rebuilt from the region's option list: with
\* a different list the widget is a new one and starts at index 0.
SelectUF(u) ==
    /\ u \in Range(ufs(df))
    /\ u /= uf_sel
    /\ uf_sel' = u
    /\ ocup_sel' = IF ocup_uf_user(df, u) = ocup_uf_user(df, uf_sel)
                   THEN ocup_sel ELSE ocup_default(df, u)
    /\ UNCHANGED <<csv, df, anos_sel>>
    /\ Rerun

SelectOcup(o) ==
    /\ o \in Range(ocup_uf_user(df, uf_sel))
    /\ o /= ocup_sel
    /\ ocup_sel' = o
    /\ UNCHANGED <<csv, df, uf_sel, anos_sel>>
    /\ Rerun

\* The multiselect adds or removes one year per interaction.
ToggleAno(a) ==
    /\ a \in Range(anos_disponiveis(df))
    /\ anos_sel' = IF a \in anos_sel THEN anos_sel \ {a} ELSE anos_sel \cup {a}
    /\ UNCHANGED <<csv, df, uf_sel, ocup_sel>>
    /\ Rerun

Next ==
    \/ \E u \in UFs : SelectUF(u)
    \/ \E o \in OcupsUser : SelectOcup(o)
    \/ \E a \in Anos : ToggleAno(a)

Spec == Init /\ [][Next]_vars

(***************************************************************************)
(* Properties.  The totals below are recomputed from the rows as plain     *)
(* integer sums over the cells that hold a number, and a value x is        *)
(* compared with a quotient num/den by cross-multiplication.               *)
(***************************************************************************)
RECURSIVE TotalUpTo(_, _, _)
TotalUpTo(part, col, k) ==
    IF k = 0 THEN 0
    ELSE TotalUpTo(part, col, k - 1)
         + (IF part[k][col].k = "num" THEN part[k][col].n ELSE 0)

Total(part, col) == TotalUpTo(part, col, Len(part))

IsQuotient(x, num, den) == x.k = "num" /\ x.n * den = x.d * num

CountIn(q, e) == Cardinality({i \in 1..Len(q) : q[i] = e})

AllNumbers(part, col) == \A i \in 1..Len(part) : part[i][col].k = "num"

WeightedAverage(agg, part) ==
    LET C == Total(part, "qtde_contribuintes")
        R == Total(part, "rend_total")
        Q == Total(part, "rend_total_por_contrib")
    IN C /= 0 =>
         /\ IsQuotient(agg.renda_media, R, C)
         /\ (AllNumbers(part, "rend_total_por_contrib") /\ Q * C /= Len(part) * R)
                => ~IsQuotient(agg.renda_media, Q, Len(part))

\* C1: the average income per contributor of a non-empty subset whose
\* contributor counts do not sum to zero is (sum of rend_total) / (sum of
\* qtde_contribuintes), and so is not the plain mean of the per-row
\* rend_total_por_contrib values whenever that mean is a different number.
C1_WeightedAverage ==
    pc = "done" =>
        /\ WeightedAverage(agg_user, d_user)
        /\ WeightedAverage(agg_jud, d_jud)

C1_Witness ==
    /\ pc = "done"
    /\ Len(d_user) = 2
    /\ AllNumbers(d_user, "qtde_contribuintes")
    /\ AllNumbers(d_user, "rend_total_por_contrib")
    /\ d_user[1].qtde_contribuintes /= d_user[2].qtde_contribuintes
    /\ Total(d_user, "qtde_contribuintes") /= 0
    /\ Total(d_user, "rend_total_por_contrib") * Total(d_user, "qtde_contribuintes")
          /= 2 * Total(d_user, "rend_total")
    /\ agg_user.renda_media.k = "num"

RatioOrUndefined(x, num, den) ==
    IF den = 0 THEN x = NaN ELSE IsQuotient(x, num, den)

FourRatios(agg, part) ==
    LET C == Total(part, "qtde_contribuintes")
        R == Total(part, "rend_total")
    IN /\ RatioOrUndefined(agg.renda_media, R, C)
       /\ RatioOrUndefined(agg.pct_isento,
                           Total(part, "rend_isentos_e_nao_tributaveis"), R)
       /\ RatioOrUndefined(agg.aliq_paga, Total(part, "imposto_pago"), R)
       /\ RatioOrUndefined(agg.aliq_devida, Total(part, "imposto_devido_total"), R)

\* C2: each of the four aggregate ratios is the undefined value exactly
\* when its summed denominator is zero, and the quotient of the two sums
\* otherwise; a zero denominator gives neither zero nor a failure.
C2_RatiosOrUndefined ==
    pc = "done" =>
        /\ FourRatios(agg_user, d_user)
        /\ FourRatios(agg_jud, d_jud)

C2_Witness ==
    /\ pc = "done"
    /\ Total(d_user, "qtde_contribuintes") = 0
    /\ Total(d_user, "rend_total") /= 0
    /\ agg_user.renda_media = NaN
    /\ agg_user.aliq_paga.k = "num"
    /\ agg_user.aliq_paga.n /= 0

\* C3: the comparison ratio is undefined whenever the subject's average
\* income is undefined or zero and whenever the reference's average income
\* is undefined; otherwise it is the quotient of the two averages.
C3_ComparisonRatio ==
    pc = "done" =>
        LET Cu == Total(d_user, "qtde_contribuintes")
            Ru == Total(d_user, "rend_total")
            Cj == Total(d_jud, "qtde_contribuintes")
            Rj == Total(d_jud, "rend_total")
        IN /\ IF Cu = 0 \/ Ru = 0 \/ Cj = 0
              THEN ratio_renda = NaN
              ELSE IsQuotient(ratio_renda, Rj * Cu, Cj * Ru)
           /\ (\/ agg_user.renda_media = NaN
               \/ agg_user.renda_media = Num(0, 1)
               \/ agg_jud.renda_media = NaN) <=> ratio_renda = NaN

C3_Witness ==
    /\ pc = "done"
    /\ agg_user.renda_media = Num(0, 1)
    /\ agg_jud.renda_media.k = "num"
    /\ agg_jud.renda_media.n /= 0
    /\ ratio_renda = NaN

\* C8: the rate difference is (reference paid rate - subject paid rate)
\* times 100 when both rates are defined, and undefined when either
\* subset's total income sums to zero.
C8_RateDifference ==
    pc = "done" =>
        LET Pu == Total(d_user, "imposto_pago")
            Ru == Total(d_user, "rend_total")
            Pj == Total(d_jud, "imposto_pago")
            Rj == Total(d_jud, "rend_total")
        IN IF Ru = 0 \/ Rj = 0
           THEN dif_aliq_paga_pp = NaN
           ELSE IsQuotient(dif_aliq_paga_pp, 100 * (Pj * Ru - Pu * Rj), Rj * Ru)

C8_Witness ==
    /\ pc = "done"
    /\ agg_user.aliq_paga = NaN
    /\ agg_jud.aliq_paga.k = "num"
    /\ agg_jud.aliq_paga.n /= 0
    /\ dif_aliq_paga_pp = NaN

\* A row of the input file that the query selects for occupation o.
Selected(r, o) ==
    /\ r.ano_base >= ANO_MIN
    /\ r.uf = uf_sel
    /\ r.ano_base \in anos_sel
    /\ r.ocupacao_principal = o

HasRow(o) == \E i \in 1..Len(csv) : Selected(csv[i], o)

RegionHas(o) ==
    \E i \in 1..Len(df) : df[i].uf = uf_sel /\ df[i].ocupacao_principal = o

NothingComputed ==
    /\ agg_user = Uncomputed
    /\ agg_jud = Uncomputed
    /\ ratio_renda = Uncomputed
    /\ dif_aliq_paga_pp = Uncomputed
    /\ s = Uncomputed
    /\ pivot = Uncomputed

AllComputed ==
    /\ agg_user.computed
    /\ agg_jud.computed
    /\ ratio_renda.k \in {"nan", "num"}
    /\ dif_aliq_paga_pp.k \in {"nan", "num"}
    /\ Len(s) > 0
    /\ DOMAIN pivot = {"columns", "rows"}

\* C4: a query whose subject subset is empty stops with the subject-side
\* outcome, one whose subject subset is non-empty and whose reference
\* subset is empty stops with the reference-side outcome, and in both cases
\* nothing below the filter is computed; every other query runs to
\* completion.  There is no third outcome.
C4_EmptyOrComplete ==
    /\ pc \in {"stop_user", "stop_jud", "done"}
    /\ pc = "stop_user" <=> ~HasRow(ocup_sel)
    /\ pc = "stop_jud" <=> (HasRow(ocup_sel) /\ ~HasRow(OCUP_JUD))
    /\ pc = "done" <=> (HasRow(ocup_sel) /\ HasRow(OCUP_JUD))
    /\ pc /= "done" => NothingComputed
    /\ pc = "done" => AllComputed

C4_Witness ==
    /\ pc = "stop_jud"
    /\ d_user /= <<>>
    /\ anos_sel /= Range(anos_disponiveis(df))
    /\ RegionHas(OCUP_JUD)
    /\ NothingComputed

ExactlySelected(part, o) ==
    /\ \A i \in 1..Len(part) : Selected(part[i], o)
    /\ \A i \in 1..Len(part) : CountIn(part, part[i]) = CountIn(csv, part[i])
    /\ \A i \in 1..Len(csv) :
          Selected(csv[i], o) => CountIn(part, csv[i]) = CountIn(csv, csv[i])

\* C5: the subject subset holds exactly the rows of the chosen region,
\* years and occupation, the reference subset exactly the rows of the same
\* region and years with the reference label, and neither holds a row with
\* a base year below ANO_MIN even when the input table has such rows.
C5_ExactSubsets ==
    /\ ExactlySelected(d_user, ocup_sel)
    /\ ExactlySelected(d_jud, OCUP_JUD)

C5_Witness ==
    /\ d_jud /= <<>>
    /\ \E i \in 1..Len(csv) :
          /\ csv[i].ano_base < ANO_MIN
          /\ csv[i].uf = uf_sel
          /\ csv[i].ocupacao_principal = ocup_sel
    /\ Len(d_user) = 1

SeriesYears == {s[i].ano_base : i \in 1..Len(s)}

GroupsOfYear(a) == {s[i].grupo : i \in {j \in 1..Len(s) : s[j].ano_base = a}}

AllDefinedNonZero(a) ==
    \A i \in 1..Len(s) :
        s[i].ano_base = a => (s[i].renda_media.k = "num" /\ s[i].renda_media.n /= 0)

\* C6: the ratio pivot has exactly one entry for every year of the series;
\* a year with rows of only one group has an undefined ratio, and a year
\* whose rows have defined non-zero values for both groups has a defined
\* ratio.
C6_PivotYears ==
    pc = "done" =>
        /\ \A i \in 1..Len(pivot.rows) : pivot.rows[i].ano_base \in SeriesYears
        /\ \A a \in SeriesYears :
              Cardinality({i \in 1..Len(pivot.rows) : pivot.rows[i].ano_base = a}) = 1
        /\ \A i \in 1..Len(pivot.rows) :
              LET a == pivot.rows[i].ano_base
              IN /\ Cardinality(GroupsOfYear(a)) = 1
                      => pivot.rows[i].vezes_mais = NaN
                 /\ (Cardinality(GroupsOfYear(a)) = 2 /\ AllDefinedNonZero(a))
                      => pivot.rows[i].vezes_mais.k = "num"

SubjectZeroOrMissing(row) ==
    \/ ocup_sel \notin pivot.columns
    \/ row.vals[ocup_sel] = NaN
    \/ row.vals[ocup_sel] = Num(0, 1)

\* C7: in the ratio pivot a year whose subject-group income per
\* contributor is zero or missing has the undefined value as its ratio.
C7_PivotZeroDenominator ==
    pc = "done" =>
        \A i \in 1..Len(pivot.rows) :
            SubjectZeroOrMissing(pivot.rows[i]) => pivot.rows[i].vezes_mais = NaN

Entry(r, g) ==
    [ano_base |-> r.ano_base,
     renda_media |-> r.rend_total_por_contrib,
     pct_isento |-> r.pct_isento,
     aliq_paga |-> r.aliq_efetiva_paga,
     grupo |-> g]

Expected(e) ==
    Cardinality({i \in 1..Len(d_user) : Entry(d_user[i], ocup_sel) = e})
    + Cardinality({i \in 1..Len(d_jud) : Entry(d_jud[i], GRUPO_JUD) = e})

\* C9: the series has one entry per row of the subject subset and one per
\* row of the reference subset, each carrying the row's three precomputed
\* ratios unchanged with its group label, ordered by year and then by
\* group label.
C9_Series ==
    pc = "done" =>
        /\ Len(s) = Len(d_user) + Len(d_jud)
        /\ \A i \in 1..Len(s) : CountIn(s, s[i]) = Expected(s[i])
        /\ \A i \in 1..Len(d_user) :
              CountIn(s, Entry(d_user[i], ocup_sel)) = Expected(Entry(d_user[i], ocup_sel))
        /\ \A i \in 1..Len(d_jud) :
              CountIn(s, Entry(d_jud[i], GRUPO_JUD)) = Expected(Entry(d_jud[i], GRUPO_JUD))
        /\ \A i, j \in 1..Len(s) :
              i < j =>
                \/ s[i].ano_base < s[j].ano_base
                \/ /\ s[i].ano_base = s[j].ano_base
                   /\ StrRank(s[i].grupo) <= StrRank(s[j].grupo)

C9_Witness ==
    /\ pc = "done"
    /\ Len(s) = 3
    /\ s[1].ano_base = s[2].ano_base
    /\ s[1].grupo = GRUPO_JUD
    /\ s[2].grupo = ocup_sel
    /\ s[3].ano_base > s[2].ano_base
    /\ s[1].renda_media /= s[2].renda_media
    /\ s[2].pct_isento /= s[2].aliq_paga

Disjoint == Range(d_user) \cap Range(d_jud) = {}

\* C10 as stated: after any sequence of widget changes the subject
\* occupation has at least one row in the selected region, is never the
\* reference label, and the two subsets are disjoint.
C10_Original ==
    /\ ocup_sel /= OCUP_JUD
    /\ RegionHas(ocup_sel)
    /\ Disjoint

\* C10 amended: the subject occupation is never the reference label and
\* the two subsets are disjoint; when the selected region has a row of some
\* occupation other than the reference one, the subject occupation has a
\* row in that region; otherwise no occupation is selected and the query
\* stops with an empty subject subset.
C10_Amended ==
    /\ ocup_sel /= OCUP_JUD
    /\ Disjoint
    /\ IF \E o \in OcupsUser : RegionHas(o)
       THEN RegionHas(ocup_sel)
       ELSE ocup_sel = None /\ d_user = <<>> /\ pc = "stop_user"

C10_Witness ==
    /\ uf_sel /= uf_default(df)
    /\ ocup_sel /= None
    /\ ocup_sel /= ocup_default(df, uf_sel)
    /\ RegionHas(ocup_sel)

====
